---- MODULE Spec2Model ----
(***************************************************************************)
(* The message-handler registry and the notification dispatch of           *)
(* whatsapp-mcp-server/main.py: add_message_handler,                       *)
(* remove_message_handler, notify_message_handlers, built_in_auto_reply    *)
(* and the /api/message-notification endpoint, run by one asyncio event    *)
(* loop.  A request is one call of the endpoint; it owns one dispatch      *)
(* (one call of notify_message_handlers).                                  *)
(***************************************************************************)
EXTENDS Naturals, Sequences, FiniteSets, TLC

\* ------------------------------------------------------------------ bounds
\* The environment's moves in one run: a handler registered, a notification
\* posted, a coroutine yielding to the event loop.
MaxEvents == 5

\* The environment's moves in one run of the HTTP server: a client connecting
\* or going away, a request to the API, time passing.
MaxSteps == 4

\* The messages handed to an AdvancedMessageHandler in one run.
MaxMessages == 3

\* The messages handed to an AutoReplyHandler in one run.
MaxAutoMessages == 3

\* The times the clock is moved forward between those messages.
MaxTicks == 2

\* The files uploaded in one run.
MaxUploads == 3

\* -------------------------------------------------------------- the inputs
\* Two handler functions: "syncH" is a plain def, "asyncH" an async def.
Handlers == {"syncH", "asyncH"}

Requests == 1 .. MaxEvents

\* asyncio.iscoroutinefunction(handler), main.py:55
IsCoroutineFunction(h) == h = "asyncH"

\* JSON objects are functions from their keys; text is a sequence of characters.
EmptyObject == [k \in {} |-> ""]

\* a text message
TextNotification ==
    ("type" :> "new_message") @@ ("sender" :> "123") @@ ("content" :> <<"h", "i">>)

\* a media message without a caption
MediaNotification ==
    ("type" :> "new_message") @@ ("sender" :> "1234567890")
        @@ ("chat_jid" :> "1234567890@s.whatsapp.net")
        @@ ("content" :> <<>>) @@ ("media_type" :> "image")

\* a text message of white space only
BlankNotification ==
    ("type" :> "new_message") @@ ("sender" :> "123")
        @@ ("chat_jid" :> "123@s.whatsapp.net") @@ ("content" :> <<" ", "\t">>)

\* The bodies a client can POST: bytes that are no JSON, JSON that is no
\* object, and JSON objects.
BadJson == [kind |-> "invalid"]
JsonArray == [kind |-> "array"]
JsonObject(o) == [kind |-> "object", obj |-> o]

Bodies ==
    {BadJson, JsonArray, JsonObject(EmptyObject), JsonObject(TextNotification),
     JsonObject(MediaNotification), JsonObject(BlankNotification)}

NoRequest == [kind |-> "none"]
None == [kind |-> "None"]

\* ------------------------------------------------------- pure helpers
\* dict.get(key, default)
Get(d, k, default) == IF k \in DOMAIN d THEN d[k] ELSE default

IsSpace(c) == c \in {" ", "\t", "\n"}

RECURSIVE LStrip(_)
LStrip(s) == IF s # <<>> /\ IsSpace(Head(s)) THEN LStrip(Tail(s)) ELSE s

RECURSIVE RStrip(_)
RStrip(s) ==
    IF s # <<>> /\ IsSpace(s[Len(s)]) THEN RStrip(SubSeq(s, 1, Len(s) - 1)) ELSE s

\* str.strip()
Strip(s) == RStrip(LStrip(s))

Range(s) == {s[i] : i \in DOMAIN s}

\* `handler in message_handlers`
Contains(s, h) == h \in Range(s)

FirstIndex(s, h) == CHOOSE i \in DOMAIN s : s[i] = h /\ \A j \in 1 .. (i - 1) : s[j] # h

\* list.remove(h): drops the first occurrence of h
ListRemove(s, h) ==
    LET i == FirstIndex(s, h) IN SubSeq(s, 1, i - 1) \o SubSeq(s, i + 1, Len(s))

Count(s, h) == Cardinality({i \in DOMAIN s : s[i] = h})

\* a registry that keeps one entry per handler
ListAppendOnce(s, h) == IF Contains(s, h) THEN s ELSE Append(s, h)

\* main.py:37, list.append(h)
ListAppend(s, h) == Append(s, h)

\* --------------------------------------------------------------- state
VARIABLES
    message_handlers,   \* main.py:30, the registry, a list
    pc,                 \* per request: where its coroutine stands
    request,            \* per request: the body posted
    message_data,       \* per request: the parsed dict handed to the handlers
    idx,                \* per request: the list iterator's index of `for handler in`
    calls,              \* per request: the invocations it made, in the order begun
    replies,            \* per request: recipients the auto-reply was sent to
    response,           \* per request: the JSONResponse returned
    suspended,          \* per request: its coroutine has yielded to the event loop
    events,             \* history: how many moves the environment has made
    changed,            \* history: the registry was changed while the dispatch ran
    lateAdded,          \* history: handlers added while suspended in an awaited handler
    removed,            \* history: handlers whose last registry call was a removal
    unregistered,       \* history: `removed` at dispatch start, less re-registrations
    haveFailed,         \* history: handlers an invocation of which has raised
    failedBefore        \* history: `haveFailed` when the dispatch began

\* http_server.py: the SSE connections and what was sent on them
VARIABLES
    sse_connections,    \* http_server.py:35, the list of the connections' queues
    queues,             \* per connection: the items put on its asyncio.Queue
    gen,                \* per connection: where its event_generator stands
    yielded,            \* per connection: the items its generator has yielded
    timer,              \* per connection: time spent in the current wait_for
    http_response,      \* the answer to the latest request of the HTTP API
    published,          \* history: how many broadcast_event calls were made
    openedAt,           \* history: `published` when the connection was opened
    idle,               \* history: time since an item was last put or yielded
    removals,           \* history: the attempts to take the queue off the list
    steps               \* history: how many moves the environment has made

\* advanced_reactive_handler.py: one AdvancedMessageHandler
VARIABLES
    message_count,      \* advanced_reactive_handler.py:34
    processed_messages, \* advanced_reactive_handler.py:35
    blocked_senders,    \* advanced_reactive_handler.py:36
    reply_log,          \* the send_reply calls of the latest handle_message
    unblockSent         \* history: senders whose latest /block or /unblock
                        \* message was /unblock

\* auto_reply_handler.py: one AutoReplyHandler and the clock it reads
VARIABLES
    auto_message_count, \* auto_reply_handler.py:31, message_count
    reply_count,        \* auto_reply_handler.py:32
    last_sender,        \* auto_reply_handler.py:33, <<>> for None, else <<sender>>
    last_message_time,  \* auto_reply_handler.py:34, <<>> for None, else <<seconds>>
    now,                \* datetime.now(), in seconds
    ticks,              \* history: how often the clock was moved
    handled,            \* what the latest handle_message did
    unrecognized        \* history: the get_response calls that matched nothing

\* http_server.py: upload_and_send_file and the directory of temporary files
VARIABLES
    temp_files,         \* the temporary files that exist on disk
    upload,             \* the request being served: where it stands, its
                        \* temp_file_path (<<>> for None), the file's size, the
                        \* exception on its way, what os.unlink did, its answer
    uploads             \* history: how many uploads were begun

\* the state of main.py
mainVars ==
    <<message_handlers, pc, request, message_data, idx, calls, replies, response,
      suspended, events, changed, lateAdded, removed, unregistered, haveFailed,
      failedBefore>>

\* the state of http_server.py
sseVars ==
    <<sse_connections, queues, gen, yielded, timer, http_response, published,
      openedAt, idle, removals, steps>>

\* the state of the AdvancedMessageHandler
advVars ==
    <<message_count, processed_messages, blocked_senders, reply_log, unblockSent>>

\* the state of the AutoReplyHandler
autoVars ==
    <<auto_message_count, reply_count, last_sender, last_message_time, now, ticks,
      handled, unrecognized>>

\* the state of upload_and_send_file
uploadVars == <<temp_files, upload, uploads>>

vars == <<mainVars, sseVars, advVars, autoVars, uploadVars>>

\* what a step of main.py leaves alone
outsideMain == <<sseVars, advVars, autoVars, uploadVars>>

\* what a step of the SSE endpoints of http_server.py leaves alone
outsideHttp == <<mainVars, advVars, autoVars, uploadVars>>

\* what a step of the AdvancedMessageHandler leaves alone
outsideAdv == <<mainVars, sseVars, autoVars, uploadVars>>

\* what a step of the AutoReplyHandler leaves alone
outsideAuto == <<mainVars, sseVars, advVars, uploadVars>>

\* what a step of upload_and_send_file leaves alone, but for its broadcast
outsideUpload == <<mainVars, advVars, autoVars>>

\* what a registry call leaves alone
dispatchVars ==
    <<pc, request, message_data, idx, calls, replies, response, suspended,
      haveFailed, failedBefore>>

\* what a step inside a dispatch leaves alone
registryVars == <<message_handlers, changed, lateAdded, removed, unregistered>>

NoResponse == [status |-> 0, success |-> FALSE, message |-> <<>>]

\* main.py:832-835
SuccessResponse ==
    [status |-> 200, success |-> TRUE,
     message |-> <<"Notification processed successfully">>]

\* main.py:839-842; the message carries str(e)
ErrorResponse(e) ==
    [status |-> 500, success |-> FALSE,
     message |-> <<"Error processing notification", e>>]

\* One asyncio.Queue per call of event_generator, http_server.py:225
Conns == 1 .. MaxSteps

NoHttpResponse ==
    [endpoint |-> "none", tool_name |-> "", status |-> 0, called |-> FALSE,
     broadcasts |-> <<>>]

SseInit ==
    /\ sse_connections = <<>>
    /\ queues = [c \in Conns |-> <<>>]
    /\ gen = [c \in Conns |-> "new"]
    /\ yielded = [c \in Conns |-> <<>>]
    /\ timer = [c \in Conns |-> 0]
    /\ http_response = NoHttpResponse
    /\ published = 0
    /\ openedAt = [c \in Conns |-> 0]
    /\ idle = [c \in Conns |-> 0]
    /\ removals = [c \in Conns |-> <<>>]
    /\ steps = 0

\* advanced_reactive_handler.py:33-45, __init__
AdvInit ==
    /\ message_count = 0
    /\ processed_messages = <<>>
    /\ blocked_senders = {}
    /\ reply_log = <<>>
    /\ unblockSent = {}

\* no handle_message call yet
NotHandled == [sender |-> "", skipped |-> FALSE, response |-> <<>>, default |-> FALSE]

\* auto_reply_handler.py:30-34, __init__
AutoInit ==
    /\ auto_message_count = 0
    /\ reply_count = 0
    /\ last_sender = <<>>
    /\ last_message_time = <<>>
    /\ now = 0
    /\ ticks = 0
    /\ handled = NotHandled
    /\ unrecognized = 0

\* no upload is being served
NoUpload ==
    [pc |-> "idle", temp_file_path |-> <<>>, file_size |-> 0, exc |-> "none",
     unlink |-> "none", status |-> 0]

UploadInit ==
    /\ temp_files = {}
    /\ upload = NoUpload
    /\ uploads = 0

Init ==
    /\ SseInit
    /\ AdvInit
    /\ AutoInit
    /\ UploadInit
    /\ message_handlers = <<>>
    /\ pc = [d \in Requests |-> "idle"]
    /\ request = [d \in Requests |-> NoRequest]
    /\ message_data = [d \in Requests |-> None]
    /\ idx = [d \in Requests |-> 0]
    /\ calls = [d \in Requests |-> <<>>]
    /\ replies = [d \in Requests |-> <<>>]
    /\ response = [d \in Requests |-> NoResponse]
    /\ suspended = [d \in Requests |-> FALSE]
    /\ events = 0
    /\ changed = [d \in Requests |-> FALSE]
    /\ lateAdded = [d \in Requests |-> {}]
    /\ removed = {}
    /\ unregistered = [d \in Requests |-> {}]
    /\ haveFailed = {}
    /\ failedBefore = [d \in Requests |-> {}]

\* ------------------------------------------------- the event loop's view
Running(d) == {i \in DOMAIN calls[d] : calls[d][i].result = "running"}

InProgress(d) == pc[d] \in {"auto_reply", "loop"}

\* d is inside an awaited coroutine handler
InAwaitedHandler(d) ==
    \E i \in Running(d) : IsCoroutineFunction(calls[d][i].handler)

\* d occupies the event loop: its coroutine has begun and has not yielded.
\* Nothing else runs until it suspends or returns.
HoldsLoop(d) == InProgress(d) /\ ~suspended[d]

\* A request that was answered is looked at and then closed before anything
\* else is scheduled: an answered request keeps nothing the program reads.
ResponsePending == \E d \in Requests : pc[d] = "done"

\* d's coroutine may take its next step
MayRun(d) == ~ResponsePending /\ \A e \in Requests \ {d} : ~HoldsLoop(e)

\* Registry calls come from other tasks while every dispatch is suspended, or
\* from the handler that is running.
MayCallRegistry ==
    ~ResponsePending /\ \A d \in Requests : HoldsLoop(d) => Running(d) # {}

\* ------------------------------------------------------------ registry
\* main.py:35-38
AddHandler(h) ==
    /\ MayCallRegistry
    /\ events < MaxEvents
    /\ events' = events + 1
    /\ message_handlers' = ListAppend(message_handlers, h)
    /\ changed' = [d \in Requests |-> changed[d] \/ InProgress(d)]
    /\ lateAdded' =
           [d \in Requests |->
               IF suspended[d] /\ InAwaitedHandler(d) /\ ~Contains(message_handlers, h)
               THEN lateAdded[d] \cup {h} ELSE lateAdded[d]]
    /\ removed' = removed \ {h}
    /\ unregistered' = [d \in Requests |-> unregistered[d] \ {h}]
    /\ UNCHANGED dispatchVars
    /\ UNCHANGED outsideMain

\* main.py:40-44
RemoveHandler(h) ==
    /\ MayCallRegistry
    /\ IF Contains(message_handlers, h)
       THEN /\ message_handlers' = ListRemove(message_handlers, h)
            /\ changed' = [d \in Requests |-> changed[d] \/ InProgress(d)]
            /\ removed' = removed \cup {h}
       ELSE UNCHANGED <<message_handlers, changed, removed>>
    /\ lateAdded' = [d \in Requests |-> lateAdded[d] \ {h}]
    /\ UNCHANGED <<events, unregistered>>
    /\ UNCHANGED dispatchVars
    /\ UNCHANGED outsideMain

\* --------------------------------------------------- built-in auto-reply
\* an early return that does not strip the content
SkipsAutoReplyUnstripped(data) ==
    Get(data, "content", <<>>) = <<>> /\ Get(data, "media_type", "") = ""

\* main.py:65-73: the fields read and the early return
SkipsAutoReply(data) ==
    LET content == Strip(Get(data, "content", <<>>))
        media_type == Get(data, "media_type", "")
    IN  content = <<>> /\ media_type = ""

\* What generate_llamastack_response can return: None (no client, or any
\* exception inside it, main.py:95-97 and 119-121) or the model's text.
LlamaResponses == {"", "Hello! How can I help you today?"}

\* main.py:79-80: the recipients of whatsapp_send_message
AutoReplySends(data, llama) ==
    IF llama # "" THEN <<Get(data, "chat_jid", "unknown")>> ELSE <<>>

\* main.py:80: whatsapp_send_message returns (True, _), returns (False, _) or
\* raises
SendOutcomes == {"sent", "refused", "raised"}

\* a built_in_auto_reply without its try/except
NotAutoReplyCaught(sent) == FALSE

\* main.py:64 and 86-87, `except Exception` around the whole auto-reply
AutoReplyCaught(sent) == TRUE

\* ------------------------------------------------------------ dispatch
\* a loop that walks the registry from its end
NextHandlerReversed(d) == message_handlers[Len(message_handlers) - idx[d]]

\* main.py:53, the element the list iterator yields
NextHandler(d) == message_handlers[idx[d] + 1]

\* main.py:53, the list iterator is exhausted
Exhausted(d) == idx[d] >= Len(message_handlers)

\* a loop that starts the handler's coroutine and does not await it
NotAwaited(d) == TRUE

\* main.py:56, `await handler(message_data)`: the loop goes on only when the
\* invocation it began has finished
Awaited(d) == Running(d) = {}

\* a loop without the try/except
NotCaughtInLoop(outcome) == FALSE

\* main.py:59, `except Exception` around each invocation
CaughtInLoop(outcome) == TRUE

\* an except clause that calls the failed handler again
IdxAfterReturnRetrying(d, outcome) == IF outcome = "failed" THEN idx[d] - 1 ELSE idx[d]

\* main.py:59-60, the except clause only logs: the iterator is not moved
IdxAfterReturn(d, outcome) == idx[d]

\* an endpoint whose except clause answers as if nothing had happened
RespondSwallowing(exc) == SuccessResponse

\* main.py:823-842: what the endpoint answers, given the exception that
\* reached its try block ("none" when the block ran to its return)
Respond(exc) == IF exc = "none" THEN SuccessResponse ELSE ErrorResponse(exc)

\* main.py:820-830 with 46-51 and 62-73: the request arrives, the body is
\* parsed, notify_message_handlers is entered and built_in_auto_reply runs
\* to its early return or up to its LlamaStack call.
MessageNotification(d, body) ==
    /\ pc[d] = "idle"
    /\ \A e \in 1 .. (d - 1) : pc[e] # "idle"
    /\ MayRun(d)
    /\ \A e \in Requests : ~HoldsLoop(e)
    /\ events < MaxEvents
    /\ events' = events + 1
    /\ request' = [request EXCEPT ![d] = body]
    /\ IF body.kind = "invalid"
       THEN \* request.json() raises
            /\ response' = [response EXCEPT ![d] = Respond("JSONDecodeError")]
            /\ pc' = [pc EXCEPT ![d] = "done"]
            /\ UNCHANGED <<message_data, unregistered, changed, lateAdded, failedBefore>>
       ELSE IF body.kind # "object"
       THEN \* notification_data.get: a list has no attribute 'get'
            /\ response' = [response EXCEPT ![d] = Respond("AttributeError")]
            /\ pc' = [pc EXCEPT ![d] = "done"]
            /\ UNCHANGED <<message_data, unregistered, changed, lateAdded, failedBefore>>
       ELSE /\ message_data' = [message_data EXCEPT ![d] = body.obj]
            /\ unregistered' = [unregistered EXCEPT ![d] = removed]
            /\ failedBefore' = [failedBefore EXCEPT ![d] = haveFailed]
            /\ changed' = [changed EXCEPT ![d] = FALSE]
            /\ lateAdded' = [lateAdded EXCEPT ![d] = {}]
            /\ pc' = [pc EXCEPT ![d] =
                         IF SkipsAutoReply(body.obj) THEN "loop" ELSE "auto_reply"]
            /\ UNCHANGED response
    /\ UNCHANGED <<message_handlers, idx, calls, replies, suspended, removed, haveFailed>>
    /\ UNCHANGED outsideMain

\* main.py:51 and 56, `await`: the coroutine awaited (built_in_auto_reply's
\* LlamaStack call, or an async def handler) yields to the event loop
Suspend(d) ==
    /\ HoldsLoop(d)
    /\ ~ResponsePending
    /\ pc[d] = "auto_reply" \/ InAwaitedHandler(d)
    /\ events < MaxEvents
    /\ events' = events + 1
    /\ suspended' = [suspended EXCEPT ![d] = TRUE]
    /\ UNCHANGED <<pc, request, message_data, idx, calls, replies, response,
                   haveFailed, failedBefore>>
    /\ UNCHANGED registryVars
    /\ UNCHANGED outsideMain

\* main.py:76-87: generate_llamastack_response returns, the reply is sent,
\* built_in_auto_reply returns and the for loop creates its iterator.
AutoReplyReturns(d, llama, sent) ==
    /\ pc[d] = "auto_reply"
    /\ MayRun(d)
    /\ replies' = [replies EXCEPT ![d] =
                      IF sent = "sent" THEN AutoReplySends(message_data[d], llama)
                      ELSE <<>>]
    /\ suspended' = [suspended EXCEPT ![d] = FALSE]
    /\ IF llama # "" /\ sent = "raised" /\ ~AutoReplyCaught(sent)
       THEN \* the exception leaves built_in_auto_reply and notify_message_handlers
            /\ response' = [response EXCEPT ![d] = Respond("SendError")]
            /\ pc' = [pc EXCEPT ![d] = "done"]
       ELSE /\ pc' = [pc EXCEPT ![d] = "loop"]
            /\ UNCHANGED response
    /\ UNCHANGED <<request, message_data, idx, calls, events, haveFailed, failedBefore>>
    /\ UNCHANGED registryVars
    /\ UNCHANGED outsideMain

\* main.py:53-58: the iterator yields the next handler and it is called
InvokeHandler(d) ==
    /\ pc[d] = "loop"
    /\ MayRun(d)
    /\ Awaited(d)
    /\ ~Exhausted(d)
    /\ calls' = [calls EXCEPT ![d] =
                    Append(@, [handler |-> NextHandler(d), pos |-> idx[d] + 1,
                               event |-> message_data[d], result |-> "running"])]
    /\ idx' = [idx EXCEPT ![d] = @ + 1]
    /\ UNCHANGED <<pc, request, message_data, replies, response, suspended, events,
                   haveFailed, failedBefore>>
    /\ UNCHANGED registryVars
    /\ UNCHANGED outsideMain

\* main.py:54-60: the invocation returns ("ok") or raises ("failed")
HandlerReturns(d, outcome) ==
    /\ pc[d] = "loop"
    /\ MayRun(d)
    /\ \E i \in Running(d) :
           /\ calls' = [calls EXCEPT ![d][i].result = outcome]
           /\ haveFailed' =
                  IF outcome = "failed"
                  THEN haveFailed \cup {calls[d][i].handler} ELSE haveFailed
    /\ suspended' = [suspended EXCEPT ![d] = FALSE]
    /\ IF outcome = "failed" /\ ~CaughtInLoop(outcome)
       THEN \* the exception leaves notify_message_handlers
            /\ response' = [response EXCEPT ![d] = Respond("HandlerError")]
            /\ pc' = [pc EXCEPT ![d] = "done"]
            /\ UNCHANGED idx
       ELSE /\ idx' = [idx EXCEPT ![d] = IdxAfterReturn(d, outcome)]
            /\ UNCHANGED <<pc, response>>
    /\ UNCHANGED <<request, message_data, replies, events, failedBefore>>
    /\ UNCHANGED registryVars
    /\ UNCHANGED outsideMain

\* main.py:53 and 832-835: the iterator is exhausted, notify_message_handlers
\* returns and the endpoint answers
LoopExit(d) ==
    /\ pc[d] = "loop"
    /\ MayRun(d)
    /\ Awaited(d)
    /\ Exhausted(d)
    /\ response' = [response EXCEPT ![d] = Respond("none")]
    /\ pc' = [pc EXCEPT ![d] = "done"]
    /\ UNCHANGED <<request, message_data, idx, calls, replies, suspended, events,
                   haveFailed, failedBefore>>
    /\ UNCHANGED registryVars
    /\ UNCHANGED outsideMain

\* The response has been sent: the request's coroutine and its dict are gone.
Close(d) ==
    /\ pc[d] = "done"
    /\ pc' = [pc EXCEPT ![d] = "closed"]
    /\ request' = [request EXCEPT ![d] = NoRequest]
    /\ message_data' = [message_data EXCEPT ![d] = None]
    /\ idx' = [idx EXCEPT ![d] = 0]
    /\ calls' = [calls EXCEPT ![d] = <<>>]
    /\ replies' = [replies EXCEPT ![d] = <<>>]
    /\ response' = [response EXCEPT ![d] = NoResponse]
    /\ suspended' = [suspended EXCEPT ![d] = FALSE]
    /\ changed' = [changed EXCEPT ![d] = FALSE]
    /\ lateAdded' = [lateAdded EXCEPT ![d] = {}]
    /\ unregistered' = [unregistered EXCEPT ![d] = {}]
    /\ failedBefore' = [failedBefore EXCEPT ![d] = {}]
    /\ UNCHANGED <<message_handlers, events, removed, haveFailed>>
    /\ UNCHANGED outsideMain

\* main.py:56 and 58: the handler is handed the dict itself, not a copy; a
\* handler that assigns to a key (message_data['sender'] = ...) changes the
\* dict that notify_message_handlers holds.
Tampered(data) == ("sender" :> "tampered") @@ data

HandlerMutatesEvent(d) ==
    /\ pc[d] = "loop"
    /\ MayRun(d)
    /\ Running(d) # {}
    /\ message_data[d] # Tampered(message_data[d])
    /\ events < MaxEvents
    /\ events' = events + 1
    /\ message_data' = [message_data EXCEPT ![d] = Tampered(@)]
    /\ UNCHANGED <<pc, request, idx, calls, replies, response, suspended,
                   haveFailed, failedBefore>>
    /\ UNCHANGED registryVars
    /\ UNCHANGED outsideMain

Next ==
    \/ \E h \in Handlers : AddHandler(h)
    \/ \E h \in Handlers : RemoveHandler(h)
    \/ \E d \in Requests, body \in Bodies : MessageNotification(d, body)
    \/ \E d \in Requests : Suspend(d)
    \/ \E d \in Requests, llama \in LlamaResponses, sent \in SendOutcomes :
           AutoReplyReturns(d, llama, sent)
    \/ \E d \in Requests : InvokeHandler(d)
    \/ \E d \in Requests, outcome \in {"ok", "failed"} : HandlerReturns(d, outcome)
    \/ \E d \in Requests : LoopExit(d)
    \/ \E d \in Requests : Close(d)

Spec == Init /\ [][Next]_vars

\* the same program with handlers that write to the event they are given
MutatingNext ==
    \/ Next
    \/ \E d \in Requests : HandlerMutatesEvent(d)

MutatingSpec == Init /\ [][MutatingNext]_vars

\* main.py:35-38, called while no dispatch is in progress
AddHandlerBetweenDispatches(h) ==
    /\ \A d \in Requests : ~InProgress(d)
    /\ AddHandler(h)

\* the same program when handlers are registered between dispatches only:
\* what changes the registry during a dispatch is a removal
RemovalNext ==
    \/ \E h \in Handlers : AddHandlerBetweenDispatches(h)
    \/ \E h \in Handlers : RemoveHandler(h)
    \/ \E d \in Requests, body \in Bodies : MessageNotification(d, body)
    \/ \E d \in Requests : Suspend(d)
    \/ \E d \in Requests, llama \in LlamaResponses, sent \in SendOutcomes :
           AutoReplyReturns(d, llama, sent)
    \/ \E d \in Requests : InvokeHandler(d)
    \/ \E d \in Requests, outcome \in {"ok", "failed"} : HandlerReturns(d, outcome)
    \/ \E d \in Requests : LoopExit(d)
    \/ \E d \in Requests : Close(d)

RemovalSpec == Init /\ [][RemovalNext]_vars

\* ======================================================= http_server.py
\* asyncio.wait_for(queue.get(), timeout=30.0), http_server.py:242
KeepaliveTimeout == 30

\* by how much the clock is moved in one step
TickSteps == {10, 30}

\* http_server.py:230-236 and 246-251, the items the generator makes itself
Connected == [event |-> "connected", n |-> 0]
Keepalive == [event |-> "keepalive", n |-> 0]

\* http_server.py:171-184, the keys of tool_functions
ToolFunctions ==
    {"search_contacts", "list_messages", "list_chats", "get_chat",
     "get_direct_chat_by_contact", "get_contact_chats", "get_last_interaction",
     "get_message_context", "send_message", "send_file", "send_audio_message",
     "download_media"}

\* the tool names requested: one of the table, one that is not in it
RequestedTools == {"send_message", "no_such_tool"}

\* http_server.py:195 and 198-202: the tool function returns a value that
\* json.dumps accepts, returns one it does not accept, or raises
ToolOutcomes == {"returns", "unserializable", "raises"}

\* a list that is popped instead of searched
RemoveConnectionByPop(conns, q) ==
    IF conns = <<>> THEN conns ELSE SubSeq(conns, 1, Len(conns) - 1)

\* http_server.py:256-257 and 275-276
RemoveConnection(conns, q) == IF Contains(conns, q) THEN ListRemove(conns, q) ELSE conns

\* a broadcast loop without its try/except
NotPutFailureCaught(q) == FALSE

\* http_server.py:270-273, `except Exception` around each put
PutFailureCaught(q) == TRUE

\* a generator that announces the new client to everybody
QueuesAfterOpenAnnounced(qs, c) ==
    [q \in Conns |->
        IF q = c THEN <<>>
        ELSE IF Contains(sse_connections, q) THEN Append(qs[q], Connected) ELSE qs[q]]

\* a generator that starts from the latest event published
QueuesAfterOpenReplayed(qs, c) ==
    [qs EXCEPT ![c] =
        IF published > 0 THEN <<[event |-> "tools_listed", n |-> published]>> ELSE <<>>]

\* http_server.py:225-236: the queue is new and empty, and "connected" is
\* yielded, not put on a queue
QueuesAfterOpen(qs, c) == [qs EXCEPT ![c] = <<>>]

\* a deadline that is not started again after an item
TimerAfterGetKept(c) == timer[c]

\* http_server.py:239-243: the next turn of the loop calls wait_for again
TimerAfterGet(c) == 0

\* The part of the state broadcast_event works on, with the exception that is
\* on its way up ("none" when there is none) and the events broadcast.
Hub ==
    [conns |-> sse_connections, queues |-> queues, idle |-> idle,
     removals |-> removals, published |-> published, exc |-> "none", log |-> <<>>]

\* an attempt to remove q: who made it and whether q was on the list
Attempt(by, conns, q) == [by |-> by, removed |-> Contains(conns, q)]

RemoveFrom(st, q) ==
    [st EXCEPT !.conns = RemoveConnection(@, q),
               !.removals[q] = Append(@, Attempt("broadcast_event", st.conns, q))]

\* http_server.py:269-276: the loop over sse_connections.copy(); `fails` are
\* the queues whose put raises
RECURSIVE BroadcastLoop(_, _, _, _)
BroadcastLoop(copy, st, ev, fails) ==
    IF copy = <<>> \/ st.exc # "none" THEN st
    ELSE LET q == Head(copy) IN
         IF q \in fails
         THEN IF PutFailureCaught(q)
              THEN BroadcastLoop(Tail(copy), RemoveFrom(st, q), ev, fails)
              ELSE [st EXCEPT !.exc = "PutError"]
         ELSE BroadcastLoop(Tail(copy),
                            [st EXCEPT !.queues[q] = Append(@, ev), !.idle[q] = 0],
                            ev, fails)

\* http_server.py:261-276: json.dumps(data) comes first and raises TypeError
\* on data it cannot serialize
BroadcastEvent(st, event_type, serializable, fails) ==
    IF ~serializable
    THEN [st EXCEPT !.exc = "TypeError", !.published = @ + 1]
    ELSE BroadcastLoop(st.conns,
                       [st EXCEPT !.published = @ + 1, !.log = Append(@, event_type)],
                       [event |-> event_type, n |-> st.published + 1], fails)

\* what a request leaves behind
Commit(st) ==
    /\ sse_connections' = st.conns
    /\ queues' = st.queues
    /\ idle' = st.idle
    /\ removals' = st.removals
    /\ published' = st.published

\* c waits in wait_for(queue.get())
Waiting(c) == gen[c] = "waiting"

\* A request that was answered is looked at and then forgotten before
\* anything else is scheduled.
NoneAnswered == http_response = NoHttpResponse

\* http_server.py:220-236: the response starts to iterate event_generator
SseOpen(c) ==
    /\ NoneAnswered
    /\ gen[c] = "new"
    /\ \A b \in 1 .. (c - 1) : gen[b] # "new"
    /\ steps < MaxSteps
    /\ steps' = steps + 1
    /\ sse_connections' = Append(sse_connections, c)
    /\ queues' = QueuesAfterOpen(queues, c)
    /\ yielded' = [yielded EXCEPT ![c] = <<Connected>>]
    /\ gen' = [gen EXCEPT ![c] = "waiting"]
    /\ timer' = [timer EXCEPT ![c] = 0]
    /\ idle' = [idle EXCEPT ![c] = 0]
    /\ openedAt' = [openedAt EXCEPT ![c] = published]
    /\ UNCHANGED <<http_response, published, removals>>
    /\ UNCHANGED outsideHttp

\* http_server.py:242-243: queue.get() returns an item and it is yielded
QueueGet(c) ==
    /\ NoneAnswered
    /\ Waiting(c)
    /\ queues[c] # <<>>
    /\ yielded' = [yielded EXCEPT ![c] = Append(@, Head(queues[c]))]
    /\ queues' = [queues EXCEPT ![c] = Tail(@)]
    /\ timer' = [timer EXCEPT ![c] = TimerAfterGet(c)]
    /\ UNCHANGED <<sse_connections, gen, http_response, published, openedAt, idle,
                   removals, steps>>
    /\ UNCHANGED outsideHttp

\* http_server.py:244-251: wait_for times out and a keepalive is yielded
Timeout(c) ==
    /\ NoneAnswered
    /\ Waiting(c)
    /\ queues[c] = <<>>
    /\ timer[c] >= KeepaliveTimeout
    /\ yielded' = [yielded EXCEPT ![c] = Append(@, Keepalive)]
    /\ timer' = [timer EXCEPT ![c] = 0]
    /\ idle' = [idle EXCEPT ![c] = 0]
    /\ UNCHANGED <<sse_connections, queues, gen, http_response, published, openedAt,
                   removals, steps>>
    /\ UNCHANGED outsideHttp

\* Time passes.  The event loop has nothing left to run: no generator has an
\* item to get and no wait_for is past its timeout.
Tick(dt) ==
    /\ NoneAnswered
    /\ \E c \in Conns : Waiting(c)
    /\ \A c \in Conns : Waiting(c) => (queues[c] = <<>> /\ timer[c] + dt <= KeepaliveTimeout)
    /\ steps < MaxSteps
    /\ steps' = steps + 1
    /\ timer' = [c \in Conns |-> IF Waiting(c) THEN timer[c] + dt ELSE timer[c]]
    /\ idle' = [c \in Conns |-> IF Waiting(c) THEN idle[c] + dt ELSE idle[c]]
    /\ UNCHANGED <<sse_connections, queues, gen, yielded, http_response, published,
                   openedAt, removals>>
    /\ UNCHANGED outsideHttp

\* http_server.py:252-257: the client goes away or the server shuts down, the
\* generator is closed at its await and its finally block runs; the generator
\* and its queue are garbage
GeneratorCloses(c) ==
    /\ NoneAnswered
    /\ Waiting(c)
    /\ gen' = [gen EXCEPT ![c] = "closed"]
    /\ sse_connections' = RemoveConnection(sse_connections, c)
    /\ removals' = [removals EXCEPT ![c] =
                       Append(@, Attempt("event_generator", sse_connections, c))]
    /\ queues' = [queues EXCEPT ![c] = <<>>]
    /\ yielded' = [yielded EXCEPT ![c] = <<>>]
    /\ timer' = [timer EXCEPT ![c] = 0]
    /\ idle' = [idle EXCEPT ![c] = 0]
    /\ UNCHANGED <<http_response, published, openedAt, steps>>
    /\ UNCHANGED outsideHttp

\* http_server.py:51-164, GET /tools
ListToolsWith(fails) ==
    /\ NoneAnswered
    /\ steps < MaxSteps
    /\ steps' = steps + 1
    /\ LET st == BroadcastEvent(Hub, "tools_listed", TRUE, fails) IN
           /\ Commit(st)
           /\ http_response' =
                  [endpoint |-> "list_tools", tool_name |-> "",
                   status |-> IF st.exc = "none" THEN 200 ELSE 500,
                   called |-> FALSE, broadcasts |-> st.log]
    /\ UNCHANGED <<gen, yielded, timer, openedAt>>
    /\ UNCHANGED outsideHttp

\* http_server.py:206, `except Exception`: HTTPException is an Exception
ExecuteToolCatches(exc) == TRUE

\* http_server.py:169-204, the try block of execute_tool
ExecuteToolTry(tool_name, outcome, fails) ==
    IF tool_name \notin ToolFunctions
    THEN LET st == BroadcastEvent(Hub, "tool_error", TRUE, fails) IN
         IF st.exc = "none" THEN [st EXCEPT !.exc = "HTTPException"] ELSE st
    ELSE IF outcome = "raises" THEN [Hub EXCEPT !.exc = "ToolError"]
    ELSE BroadcastEvent(Hub, "tool_executed", outcome = "returns", fails)

\* http_server.py:166-213, POST /tools/{tool_name}/execute
ExecuteToolWith(tool_name, outcome, fails) ==
    /\ NoneAnswered
    /\ steps < MaxSteps
    /\ steps' = steps + 1
    /\ LET tried == ExecuteToolTry(tool_name, outcome, fails)
           caught == tried.exc # "none" /\ ExecuteToolCatches(tried.exc)
           st == IF caught
                 THEN BroadcastEvent([tried EXCEPT !.exc = "none"], "tool_error", TRUE, fails)
                 ELSE tried
       IN  /\ Commit(st)
           /\ http_response' =
                  [endpoint |-> "execute_tool", tool_name |-> tool_name,
                   status |-> IF tried.exc = "none" THEN 200
                              ELSE IF caught THEN 500 ELSE 404,
                   called |-> tool_name \in ToolFunctions,
                   broadcasts |-> st.log]
    /\ UNCHANGED <<gen, yielded, timer, openedAt>>
    /\ UNCHANGED outsideHttp

\* the puts that raise are any of those the broadcasts of the request make
ListTools == \E fails \in SUBSET Range(sse_connections) : ListToolsWith(fails)

ExecuteTool(tool_name, outcome) ==
    \E fails \in SUBSET Range(sse_connections) : ExecuteToolWith(tool_name, outcome, fails)

\* the response has been sent
ResponseSent ==
    /\ ~NoneAnswered
    /\ http_response' = NoHttpResponse
    /\ UNCHANGED <<sse_connections, queues, gen, yielded, timer, published, openedAt,
                   idle, removals, steps>>
    /\ UNCHANGED outsideHttp

SseNext ==
    \/ \E c \in Conns : SseOpen(c)
    \/ \E c \in Conns : QueueGet(c)
    \/ \E c \in Conns : Timeout(c)
    \/ \E dt \in TickSteps : Tick(dt)
    \/ \E c \in Conns : GeneratorCloses(c)
    \/ ListTools
    \/ \E tool_name \in RequestedTools, outcome \in ToolOutcomes :
           ExecuteTool(tool_name, outcome)
    \/ ResponseSent

SseSpec == Init /\ [][SseNext]_vars

\* ============================================ advanced_reactive_handler.py
\* Text is a string here: Len and SubSeq count and cut its characters.
UpperCase == "ABCDEFGHIJKLMNOPQRSTUVWXYZ"
LowerCase == "abcdefghijklmnopqrstuvwxyz"

LowerChar(c) ==
    IF \E i \in 1 .. Len(UpperCase) : SubSeq(UpperCase, i, i) = c
    THEN LET i == CHOOSE j \in 1 .. Len(UpperCase) : SubSeq(UpperCase, j, j) = c
         IN  SubSeq(LowerCase, i, i)
    ELSE c

\* str.lower()
RECURSIVE Lower(_)
Lower(s) ==
    IF Len(s) = 0 THEN s
    ELSE LowerChar(SubSeq(s, 1, 1)) \o Lower(SubSeq(s, 2, Len(s)))

RECURSIVE StrLStrip(_)
StrLStrip(s) ==
    IF Len(s) > 0 /\ IsSpace(SubSeq(s, 1, 1)) THEN StrLStrip(SubSeq(s, 2, Len(s))) ELSE s

RECURSIVE StrRStrip(_)
StrRStrip(s) ==
    IF Len(s) > 0 /\ IsSpace(SubSeq(s, Len(s), Len(s)))
    THEN StrRStrip(SubSeq(s, 1, Len(s) - 1)) ELSE s

\* str.strip()
StrStrip(s) == StrRStrip(StrLStrip(s))

\* `k in s` for strings
IsSubstring(k, s) ==
    \E i \in 0 .. (Len(s) - Len(k)) : SubSeq(s, i + 1, i + Len(k)) = k

\* s.startswith(k)
StartsWith(s, k) == Len(s) >= Len(k) /\ SubSeq(s, 1, Len(k)) = k

\* advanced_reactive_handler.py:95 and 133
Normalized(content) == StrStrip(Lower(content))

\* advanced_reactive_handler.py:38-43, the keys of keyword_responses in the
\* order the dict holds them
Keywords == <<"help", "time", "status", "ping">>

\* advanced_reactive_handler.py:38-43, the start of each response
KeywordResponse(keyword) ==
    CASE keyword = "help" -> "I can help you with various tasks."
      [] keyword = "time" -> "The current time is"
      [] keyword = "status" -> "I am online and ready to help!"
      [] keyword = "ping" -> "Pong!"

\* advanced_reactive_handler.py:107
Greetings == {"hello", "hi", "hey", "good morning", "good afternoon"}

\* advanced_reactive_handler.py:37, never assigned again
AutoReplyEnabled == TRUE

\* the messages handed to the handler
Senders == {"111", "222"}
Contents == {"/block", " /Unblock ", "hello", "/help", "/status", "/stats"}
MediaTypes == {"", "image"}

\* text messages, and media messages without a caption
AdvMessages ==
    {[sender |-> sn, chat_jid |-> sn \o "@s.whatsapp.net", content |-> cn,
      media_type |-> ""] : sn \in Senders, cn \in Contents}
    \cup
    {[sender |-> sn, chat_jid |-> sn \o "@s.whatsapp.net", content |-> "",
      media_type |-> mt] : sn \in Senders, mt \in MediaTypes \ {""}}

\* advanced_reactive_handler.py:195-204, send_reply(chat_jid, message): the
\* call is recorded by the start of its message
Reply(data, message) == [chat_jid |-> Get(data, "chat_jid", ""), message |-> message]

\* advanced_reactive_handler.py:131-168, handle_command: the replies it sends
\* and the blocked senders it leaves
HandleCommand(data, blocked) ==
    LET content == Normalized(Get(data, "content", ""))
        sender == Get(data, "sender", "")
    IN  CASE content = "/help" ->
                 [replies |-> <<Reply(data, "Available commands:")>>, blocked |-> blocked]
          [] content = "/status" ->
                 [replies |-> <<Reply(data, "Bot Status: Online")>>, blocked |-> blocked]
          [] content = "/stats" ->
                 [replies |-> <<Reply(data, "Message Statistics:")>>, blocked |-> blocked]
          [] content = "/block" ->
                 [replies |-> <<Reply(data, "has been blocked.")>>,
                  blocked |-> blocked \cup {sender}]
          [] content = "/unblock" ->
                 [replies |-> <<Reply(data, "has been unblocked.")>>,
                  blocked |-> blocked \ {sender}]
          [] OTHER -> [replies |-> <<>>, blocked |-> blocked]

\* advanced_reactive_handler.py:100-104: the first keyword found in content
MatchingKeywords(content) == {i \in DOMAIN Keywords : IsSubstring(Keywords[i], content)}

FirstKeyword(content) ==
    Keywords[CHOOSE i \in MatchingKeywords(content) :
                 \A j \in MatchingKeywords(content) : i <= j]

\* advanced_reactive_handler.py:93-114, handle_text_message
HandleTextMessage(data, blocked) ==
    LET content == Normalized(Get(data, "content", ""))
        greeted == IF \E g \in Greetings : IsSubstring(g, content)
                   THEN <<Reply(data, "Hello! Thanks for your message.")>> ELSE <<>>
        command == IF StartsWith(content, "/") THEN HandleCommand(data, blocked)
                   ELSE [replies |-> <<>>, blocked |-> blocked]
    IN  IF MatchingKeywords(content) # {}
        THEN [replies |-> <<Reply(data, KeywordResponse(FirstKeyword(content)))>>,
              blocked |-> blocked]
        ELSE [replies |-> greeted \o command.replies, blocked |-> command.blocked]

\* advanced_reactive_handler.py:116-129, handle_media_message
HandleMediaMessage(data, blocked) ==
    [replies |-> IF AutoReplyEnabled THEN <<Reply(data, "Thanks for the")>> ELSE <<>>,
     blocked |-> blocked]

\* a check that lets a blocked sender's commands through
BlockedIgnoredButCommands(data, blocked) ==
    /\ Get(data, "sender", "unknown") \in blocked
    /\ ~StartsWith(Normalized(Get(data, "content", "")), "/")

\* advanced_reactive_handler.py:75-78
BlockedIgnored(data, blocked) == Get(data, "sender", "unknown") \in blocked

\* advanced_reactive_handler.py:75-91: what handle_message does after it has
\* counted and stored the message
Processed(data, blocked) ==
    IF BlockedIgnored(data, blocked) THEN [replies |-> <<>>, blocked |-> blocked]
    ELSE IF Get(data, "media_type", "") # "" THEN HandleMediaMessage(data, blocked)
    ELSE HandleTextMessage(data, blocked)

\* the sender's text says /unblock, or says /block
SaysUnblock(data) ==
    Get(data, "media_type", "") = "" /\ Normalized(Get(data, "content", "")) = "/unblock"

SaysBlock(data) ==
    Get(data, "media_type", "") = "" /\ Normalized(Get(data, "content", "")) = "/block"

\* advanced_reactive_handler.py:47-91, handle_message
HandleMessage(data) ==
    /\ message_count < MaxMessages
    /\ message_count' = message_count + 1
    /\ processed_messages' =
           Append(processed_messages,
                  [sender |-> Get(data, "sender", "unknown"),
                   content |-> Get(data, "content", ""),
                   chat_jid |-> Get(data, "chat_jid", "unknown"),
                   media_type |-> Get(data, "media_type", "")])
    /\ LET done == Processed(data, blocked_senders) IN
           /\ reply_log' = done.replies
           /\ blocked_senders' = done.blocked
    /\ unblockSent' =
           IF SaysUnblock(data) THEN unblockSent \cup {Get(data, "sender", "unknown")}
           ELSE IF SaysBlock(data) THEN unblockSent \ {Get(data, "sender", "unknown")}
           ELSE unblockSent
    /\ UNCHANGED outsideAdv

AdvNext == \E data \in AdvMessages : HandleMessage(data)

AdvSpec == Init /\ [][AdvNext]_vars

\* ===================================================== auto_reply_handler.py
\* auto_reply_handler.py:108, the cooldown in seconds
Cooldown == 30

\* datetime.timedelta: the seconds of one day
SecondsPerDay == 86400

\* how far the clock moves between two messages
ClockSteps == {10, 30, SecondsPerDay}

\* the difference of two datetimes is a timedelta of days, seconds and
\* microseconds; its .seconds is the seconds field alone, 0 .. 86399
TimedeltaSeconds(d) == d % SecondsPerDay

\* auto_reply_handler.py:36-66, the keys of auto_reply_rules in the order the
\* dict holds them
AutoReplyRules ==
    <<"hello", "hi", "hey", "good morning", "good afternoon", "good evening",
      "how are you", "how are you?", "what's up", "whats up", "help",
      "what can you do", "status", "ping", "time", "what time", "thank you",
      "thanks">>

\* auto_reply_handler.py:36-66, the start of each rule's response
RuleResponse(keyword) ==
    CASE keyword = "hello" -> "Hello! How can I help you today?"
      [] keyword = "hi" -> "Hi there! What can I do for you?"
      [] keyword = "hey" -> "Hey! How are you doing?"
      [] keyword = "good morning" -> "Good morning! Have a great day!"
      [] keyword = "good afternoon" -> "Good afternoon! How can I assist you?"
      [] keyword = "good evening" -> "Good evening! What do you need help with?"
      [] keyword \in {"how are you", "how are you?"} -> "I'm doing great"
      [] keyword \in {"what's up", "whats up"} -> "Not much!"
      [] keyword = "help" -> "I can help you with various tasks!"
      [] keyword = "what can you do" -> "I can help you with information"
      [] keyword = "status" -> "I am online and ready to help!"
      [] keyword = "ping" -> "Pong!"
      [] keyword \in {"time", "what time"} -> "The current time is"
      [] keyword \in {"thank you", "thanks"} -> "You're welcome!"

\* auto_reply_handler.py:69-75
DefaultResponses ==
    <<"Thanks for your message! I'm here to help.",
      "I received your message. How can I assist you?",
      "Hello! I'm ready to help you with anything you need.",
      "Thanks for reaching out! What can I do for you?",
      "I'm here and ready to help! What do you need?">>

\* auto_reply_handler.py:78-83, the keys of media_responses
MediaResponseTypes == {"image", "video", "audio", "document"}

\* auto_reply_handler.py:78-83
MediaResponse(media_type) ==
    CASE media_type = "image" -> "Thanks for the image!"
      [] media_type = "video" -> "Thanks for the video!"
      [] media_type = "audio" -> "Thanks for the audio message!"
      [] media_type = "document" -> "Thanks for the document!"

\* auto_reply_handler.py:156, the words of the greeting test
GreetingWords == {"hello", "hi", "hey", "good morning", "good afternoon", "good evening"}

\* s.endswith(k)
EndsWith(s, k) == Len(s) >= Len(k) /\ SubSeq(s, Len(s) - Len(k) + 1, Len(s)) = k

\* auto_reply_handler.py:147-149: the rules whose keyword occurs in the text
MatchingRules(content_lower) ==
    {i \in DOMAIN AutoReplyRules : IsSubstring(AutoReplyRules[i], content_lower)}

FirstRule(content_lower) ==
    AutoReplyRules[CHOOSE i \in MatchingRules(content_lower) :
                       \A j \in MatchingRules(content_lower) : i <= j]

\* auto_reply_handler.py:133-158: get_response comes to the default branch
ReachesDefault(content, media_type) ==
    LET content_lower == StrStrip(Lower(content)) IN
        /\ media_type \notin MediaResponseTypes
        /\ content # ""
        /\ MatchingRules(content_lower) = {}
        /\ ~EndsWith(content_lower, "?")
        /\ \A word \in GreetingWords : ~IsSubstring(word, content_lower)

\* auto_reply_handler.py:161
EveryThird(count, seen) == count % 3 = 0

\* auto_reply_handler.py:129-165, get_response: <<>> for None, else
\* <<response>>; count is self.message_count, seen the earlier calls that came
\* to the default branch, choice what random.choice picks
GetResponse(content, media_type, count, seen, choice) ==
    LET content_lower == StrStrip(Lower(content)) IN
        IF media_type # "" /\ media_type \in MediaResponseTypes
        THEN <<MediaResponse(media_type)>>
        ELSE IF content = "" THEN <<>>
        ELSE IF \E i \in DOMAIN AutoReplyRules : AutoReplyRules[i] = content_lower
        THEN <<RuleResponse(content_lower)>>
        ELSE IF MatchingRules(content_lower) # {}
        THEN <<RuleResponse(FirstRule(content_lower))>>
        ELSE IF EndsWith(content_lower, "?") THEN <<"That's a great question!">>
        ELSE IF \E word \in GreetingWords : IsSubstring(word, content_lower)
        THEN <<"Hello! How can I help you today?">>
        ELSE IF EveryThird(count, seen) THEN <<DefaultResponses[choice]>>
        ELSE <<>>

\* the messages handed to the handler
AutoContents == {"hello", "xyz", " Why? ", ""}
AutoMediaTypes == {"", "image", "sticker"}

AutoMessages ==
    {[sender |-> sn, chat_jid |-> sn \o "@s.whatsapp.net", content |-> cn,
      media_type |-> mt] : sn \in Senders, cn \in AutoContents, mt \in AutoMediaTypes}

\* auto_reply_handler.py:104-108, the test of the cooldown
TooSoon(sender) ==
    /\ last_sender = <<sender>>
    /\ last_message_time # <<>>
    /\ TimedeltaSeconds(now - last_message_time[1]) < Cooldown

\* auto_reply_handler.py:115-127, the part of handle_message after the
\* cooldown test; success is what send_reply returns (167-174), choice what
\* random.choice picks
Replies(data, sender, content, media_type) ==
    IF ReachesDefault(content, media_type)
    THEN /\ unrecognized' = unrecognized + 1
         /\ IF EveryThird(auto_message_count + 1, unrecognized)
            THEN \E success \in BOOLEAN, choice \in DOMAIN DefaultResponses :
                    /\ reply_count' = IF success THEN reply_count + 1 ELSE reply_count
                    /\ handled' = [sender |-> sender, skipped |-> FALSE,
                                   response |-> <<DefaultResponses[choice]>>,
                                   default |-> TRUE]
            ELSE /\ reply_count' = reply_count
                 /\ handled' = [sender |-> sender, skipped |-> FALSE,
                                response |-> <<>>, default |-> TRUE]
    ELSE /\ unrecognized' = unrecognized
         /\ \E success \in BOOLEAN :
              LET resp == GetResponse(content, media_type, auto_message_count + 1,
                                      unrecognized, 1)
              IN  /\ reply_count' = IF resp # <<>> /\ success THEN reply_count + 1
                                    ELSE reply_count
                  /\ handled' = [sender |-> sender, skipped |-> FALSE,
                                 response |-> resp, default |-> FALSE]

\* auto_reply_handler.py:85-127, handle_message
AutoReplyHandleMessage(data) ==
    /\ auto_message_count < MaxAutoMessages
    /\ auto_message_count' = auto_message_count + 1
    /\ IF TooSoon(Get(data, "sender", "unknown"))
       THEN /\ handled' = [sender |-> Get(data, "sender", "unknown"), skipped |-> TRUE,
                           response |-> <<>>, default |-> FALSE]
            /\ UNCHANGED <<last_sender, last_message_time, reply_count, unrecognized>>
       ELSE /\ last_sender' = <<Get(data, "sender", "unknown")>>
            /\ last_message_time' = <<now>>
            /\ Replies(data, Get(data, "sender", "unknown"),
                       StrStrip(Get(data, "content", "")), Get(data, "media_type", ""))
    /\ UNCHANGED <<now, ticks>>
    /\ UNCHANGED outsideAuto

\* time passes between two messages
ClockAdvances(dt) ==
    /\ ticks < MaxTicks
    /\ ticks' = ticks + 1
    /\ now' = now + dt
    /\ UNCHANGED <<auto_message_count, reply_count, last_sender, last_message_time,
                   handled, unrecognized>>
    /\ UNCHANGED outsideAuto

AutoNext ==
    \/ \E data \in AutoMessages : AutoReplyHandleMessage(data)
    \/ \E dt \in ClockSteps : ClockAdvances(dt)

AutoSpec == Init /\ [][AutoNext]_vars

\* ====================================== http_server.py: upload_and_send_file
\* the sizes of the uploaded files, in bytes
FileSizes == {0, 1}

\* what a call that can fail does
CallOutcomes == {"returns", "raises"}

\* whatsapp_send_file returns (True, _), returns (False, _) or raises
SendFileOutcomes == {"sent", "refused", "raises"}

\* a cleanup that is not in a finally block: it runs when nothing was raised
CleansUpOnReturnOnly(exc) == exc = "none"

\* http_server.py:559, `finally`: the cleanup runs however the try block ended
CleansUp(exc) == TRUE

\* http_server.py:517-522: the request arrives, temp_file_path is None and
\* NamedTemporaryFile(delete=False) creates the file; the file of the n-th
\* upload is n.  Splitting the filename or creating the file can raise.
UploadCreatesFile(outcome) ==
    /\ upload.pc = "idle"
    /\ uploads < MaxUploads
    /\ uploads' = uploads + 1
    /\ IF outcome = "returns"
       THEN /\ temp_files' = temp_files \cup {uploads + 1}
            /\ upload' = [NoUpload EXCEPT !.pc = "created",
                                          !.temp_file_path = <<uploads + 1>>]
       ELSE /\ temp_files' = temp_files
            /\ upload' = [NoUpload EXCEPT !.pc = "except", !.exc = "Exception"]
    /\ UNCHANGED <<sseVars, outsideUpload>>

\* http_server.py:525-526: copyfileobj and flush, then the with block closes
\* the file
UploadCopies(size, outcome) ==
    /\ upload.pc = "created"
    /\ upload' = IF outcome = "returns"
                 THEN [upload EXCEPT !.pc = "copied", !.file_size = size]
                 ELSE [upload EXCEPT !.pc = "except", !.exc = "Exception"]
    /\ UNCHANGED <<temp_files, uploads, sseVars, outsideUpload>>

\* another process deletes the file before it is looked at
FileVanishes ==
    /\ upload.pc = "copied"
    /\ upload.temp_file_path[1] \in temp_files
    /\ temp_files' = temp_files \ {upload.temp_file_path[1]}
    /\ UNCHANGED <<upload, uploads, sseVars, outsideUpload>>

\* http_server.py:529-534: the file must exist and must not be empty
UploadVerifies ==
    /\ upload.pc = "copied"
    /\ upload' = IF upload.temp_file_path[1] \notin temp_files
                 THEN [upload EXCEPT !.pc = "except", !.exc = "HTTPException500"]
                 ELSE IF upload.file_size = 0
                 THEN [upload EXCEPT !.pc = "except", !.exc = "HTTPException400"]
                 ELSE [upload EXCEPT !.pc = "verified"]
    /\ UNCHANGED <<temp_files, uploads, sseVars, outsideUpload>>

\* http_server.py:539-554: whatsapp_send_file, the broadcast and the return
UploadSends(sent) ==
    /\ upload.pc = "verified"
    /\ IF sent = "raises"
       THEN /\ upload' = [upload EXCEPT !.pc = "except", !.exc = "Exception"]
            /\ UNCHANGED <<sse_connections, queues, idle, removals, published>>
       ELSE \E fails \in SUBSET Range(sse_connections) :
              LET st == BroadcastEvent(Hub, "file_uploaded_and_sent", TRUE, fails) IN
                  /\ Commit(st)
                  /\ upload' = IF st.exc = "none"
                               THEN [upload EXCEPT !.pc = "finally", !.status = 200]
                               ELSE [upload EXCEPT !.pc = "except", !.exc = st.exc]
    /\ UNCHANGED <<temp_files, uploads, gen, yielded, timer, http_response, openedAt,
                   steps, outsideUpload>>

\* http_server.py:556-558, `except Exception`: every exception of the try
\* block, an HTTPException too, becomes an HTTPException with status 500
UploadExcept ==
    /\ upload.pc = "except"
    /\ upload' = [upload EXCEPT !.pc = "finally", !.status = 500]
    /\ UNCHANGED <<temp_files, uploads, sseVars, outsideUpload>>

\* http_server.py:559-566: the cleanup; os.unlink can raise, which is logged
UploadFinally(outcome) ==
    /\ upload.pc = "finally"
    /\ IF /\ CleansUp(upload.exc)
          /\ upload.temp_file_path # <<>>
          /\ upload.temp_file_path[1] \in temp_files
       THEN IF outcome = "returns"
            THEN /\ temp_files' = temp_files \ {upload.temp_file_path[1]}
                 /\ upload' = [upload EXCEPT !.pc = "done", !.unlink = "returns"]
            ELSE /\ temp_files' = temp_files
                 /\ upload' = [upload EXCEPT !.pc = "done", !.unlink = "raises"]
       ELSE /\ temp_files' = temp_files
            /\ upload' = [upload EXCEPT !.pc = "done"]
    /\ UNCHANGED <<uploads, sseVars, outsideUpload>>

\* the answer is sent and the request is forgotten
UploadAnswered ==
    /\ upload.pc = "done"
    /\ upload' = NoUpload
    /\ UNCHANGED <<temp_files, uploads, sseVars, outsideUpload>>

UploadNext ==
    \/ \E outcome \in CallOutcomes : UploadCreatesFile(outcome)
    \/ \E size \in FileSizes, outcome \in CallOutcomes : UploadCopies(size, outcome)
    \/ FileVanishes
    \/ UploadVerifies
    \/ \E sent \in SendFileOutcomes : UploadSends(sent)
    \/ UploadExcept
    \/ \E outcome \in CallOutcomes : UploadFinally(outcome)
    \/ UploadAnswered

UploadSpec == Init /\ [][UploadNext]_vars

\* ================================================================ claims
Answered(d) == pc[d] = "done"

\* the dispatch of d has begun, and the registry is as it was when it began
Quiet(d) == (InProgress(d) \/ Answered(d)) /\ request[d].kind = "object" /\ ~changed[d]

\* the handlers d invoked, in the order it invoked them
Called(d) == [i \in DOMAIN calls[d] |-> calls[d][i].handler]

\* C1: with the registry unchanged since notify_message_handlers was called,
\* the handlers invoked so far are the first handlers of the registry in
\* registration order, and a dispatch that returned has invoked all of them.
C1_RegistrationOrder ==
    \A d \in Requests :
        Quiet(d) =>
            /\ Len(calls[d]) <= Len(message_handlers)
            /\ Called(d) = SubSeq(message_handlers, 1, Len(calls[d]))
            /\ Answered(d) => Called(d) = message_handlers

C1_Witness ==
    \E d \in Requests :
        /\ Answered(d) /\ Quiet(d)
        /\ Len(calls[d]) = 2
        /\ calls[d][1].handler # calls[d][2].handler

\* C2: with the registry unchanged during the dispatch, a handler that raised
\* is followed by an invocation, with the same event, of every handler
\* registered after it, and notify_message_handlers returns normally (the
\* endpoint answers with its success response).
C2_Isolation ==
    \A d \in Requests :
        (Answered(d) /\ Quiet(d)) =>
            /\ response[d] = SuccessResponse
            /\ \A k \in DOMAIN calls[d] :
                   calls[d][k].result = "failed" =>
                       \A j \in (calls[d][k].pos + 1) .. Len(message_handlers) :
                           \E m \in DOMAIN calls[d] :
                               /\ calls[d][m].pos = j
                               /\ calls[d][m].handler = message_handlers[j]
                               /\ calls[d][m].event = message_data[d]
                               /\ calls[d][m].result \in {"ok", "failed"}

C2_Witness ==
    \E d \in Requests :
        /\ Answered(d) /\ Quiet(d)
        /\ Len(calls[d]) = 2
        /\ calls[d][1].result = "failed"
        /\ calls[d][2].result = "ok"
        /\ response[d] = SuccessResponse

\* C3: a handler registered while the dispatch is suspended inside an awaited
\* handler is not invoked by that dispatch.
C3_SnapshotStability ==
    [][\A d \in Requests :
          InvokeHandler(d) => NextHandler(d) \notin lateAdded[d]]_vars

\* C4: however often a handler was registered, a dispatch over an unchanged
\* registry invokes it exactly once.
C4_DuplicateRegistrationNoOp ==
    \A d \in Requests :
        (Answered(d) /\ Quiet(d)) =>
            \A h \in Range(message_handlers) : Count(Called(d), h) = 1

\* C5: remove_message_handler(h), called again after a call that removed h,
\* leaves the registry as it is.
C5_IdempotentRemove ==
    [][\A h \in Handlers :
          (h \in removed /\ RemoveHandler(h)) => message_handlers' = message_handlers]_vars

\* C6: a handler whose removal returned before the dispatch began (and that
\* was not registered again) is not invoked by it; and a removal leaves the
\* invocations in progress as they are.
C6_NoDeliveryAfterRemove ==
    /\ [](\A d \in Requests : \A i \in DOMAIN calls[d] :
             calls[d][i].handler \notin unregistered[d])
    /\ [][\A h \in Handlers : RemoveHandler(h) => (calls' = calls /\ pc' = pc)]_vars

\* C7: a handler that raised is not invoked again for the same event: no
\* place of the registry is invoked twice by one dispatch, and with the
\* registry unchanged the handler is invoked as often as it is registered.  It
\* stays in message_handlers where it was, and a later dispatch invokes a
\* handler that had raised before like any other.
C7_NoRetry ==
    \A d \in Requests :
        /\ \A i, j \in DOMAIN calls[d] :
               (calls[d][i].result = "failed" /\ i # j) => calls[d][i].pos # calls[d][j].pos
        /\ Quiet(d) =>
               \A i \in DOMAIN calls[d] :
                   calls[d][i].result = "failed" =>
                       /\ calls[d][i].pos \in DOMAIN message_handlers
                       /\ message_handlers[calls[d][i].pos] = calls[d][i].handler
                       /\ Count(Called(d), calls[d][i].handler)
                              <= Count(message_handlers, calls[d][i].handler)
        /\ (Answered(d) /\ Quiet(d)) =>
               \A h \in failedBefore[d] \cap Range(message_handlers) :
                   \E i \in DOMAIN calls[d] :
                       /\ calls[d][i].handler = h
                       /\ calls[d][i].event = message_data[d]
                       /\ calls[d][i].result \in {"ok", "failed"}

C7_Witness ==
    \E d \in Requests :
        /\ Answered(d) /\ Quiet(d)
        /\ \E i \in DOMAIN calls[d] :
               /\ calls[d][i].handler \in failedBefore[d]
               /\ calls[d][i].result = "ok"

\* C8: a dispatch has at most one invocation in progress, the one it began
\* last: every earlier one has finished, whatever other dispatches do.
C8_NoOverlap ==
    \A d \in Requests :
        \A i \in DOMAIN calls[d] :
            i < Len(calls[d]) => calls[d][i].result # "running"

C8_Witness ==
    \E d, e \in Requests :
        /\ d # e
        /\ InProgress(d) /\ InProgress(e)
        /\ Len(calls[d]) = 2
        /\ calls[d][1].result # "running"
        /\ calls[d][2].result = "running"
        /\ Running(e) # {}

\* C9: an empty JSON object is answered with an error and reaches no
\* handler; {type, sender: "123", content: "hi"} is answered with success and
\* the handlers get an event whose sender is "123".
C9_MalformedRejected ==
    \A d \in Requests :
        /\ (request[d] = JsonObject(EmptyObject) /\ pc[d] # "idle") =>
               /\ calls[d] = <<>>
               /\ Answered(d) => (response[d].status # 200 /\ ~response[d].success)
        /\ (request[d] = JsonObject(TextNotification) /\ pc[d] # "idle") =>
               /\ \A i \in DOMAIN calls[d] :
                      Get(calls[d][i].event, "sender", "unknown") = "123"
               /\ Answered(d) => response[d] = SuccessResponse

\* C10: a request is answered with 200 and {success: true, message} or with
\* 500 and {success: false, message}; a body that is a JSON object (text or
\* media notification) gets the 200, whatever its handlers do; the 500 is
\* given exactly for the bodies whose parsing raises (no JSON, or JSON that
\* is no object), no exception leaving notify_message_handlers.
C10_EndpointAnswers ==
    \A d \in Requests :
        Answered(d) =>
            /\ response[d].status \in {200, 500}
            /\ response[d].success = (response[d].status = 200)
            /\ response[d].message # <<>>
            /\ request[d].kind = "object" => response[d] = SuccessResponse
            /\ response[d].status = 500 <=> request[d].kind \in {"invalid", "array"}
            /\ response[d].status = 500 =>
                   response[d].message[2] \in {"JSONDecodeError", "AttributeError"}

C10_Witness ==
    \E d \in Requests :
        /\ Answered(d)
        /\ request[d] = JsonObject(MediaNotification)
        /\ response[d] = SuccessResponse
        /\ \E i \in DOMAIN calls[d] : calls[d][i].result = "failed"

\* the exception, if any, that parsing the body raises in the endpoint
IngestionOutcome(body) ==
    IF body.kind = "invalid" THEN "JSONDecodeError"
    ELSE IF body.kind # "object" THEN "AttributeError" ELSE "none"

\* C11: the response is a function of the body alone: a notification that is
\* a JSON object gets the success response whichever of its handlers raised
\* and whether or not the built-in auto-reply sent anything.
C11_ResponseOnlyOfIngestion ==
    \A d \in Requests :
        Answered(d) =>
            /\ response[d] = Respond(IngestionOutcome(request[d]))
            /\ request[d].kind = "object" => response[d] = SuccessResponse

C11_Witness ==
    \E d \in Requests :
        /\ Answered(d)
        /\ request[d] = JsonObject(TextNotification)
        /\ replies[d] = <<>>
        /\ \E i, j \in DOMAIN calls[d] :
               calls[d][i].result = "failed" /\ calls[d][j].result = "ok"

\* C12: every handler a dispatch invokes is given the field values the
\* notification was posted with, also after an earlier handler has written
\* to the event it was given.
C12_EventNeverMutated ==
    \A d \in Requests :
        request[d].kind = "object" =>
            \A i \in DOMAIN calls[d] : calls[d][i].event = request[d].obj

\* C13: every call of add_message_handler(h) appends: afterwards the registry
\* is not empty, it has grown by one, h is its last entry and the entries it
\* had are where they were.
C13_AddAppends ==
    [][\A h \in Handlers :
          AddHandler(h) =>
              /\ message_handlers' # <<>>
              /\ Len(message_handlers') = Len(message_handlers) + 1
              /\ message_handlers'[Len(message_handlers')] = h
              /\ SubSeq(message_handlers', 1, Len(message_handlers)) = message_handlers]_vars

\* h was added to a registry that held h already
C13_Witness ==
    /\ Len(message_handlers) >= 3
    /\ message_handlers[Len(message_handlers)] \in
           Range(SubSeq(message_handlers, 1, Len(message_handlers) - 1))
    /\ removed = {}

\* C14: the first item an open connection yields is "connected"; no later
\* item of it is, and "connected" is on no connection's queue.
C14_ConnectedFirstAndPrivate ==
    \A c \in Conns :
        /\ Waiting(c) => (yielded[c] # <<>> /\ yielded[c][1] = Connected)
        /\ \A i \in DOMAIN yielded[c] : i > 1 => yielded[c][i] # Connected
        /\ Connected \notin Range(queues[c])

\* a second client has connected while the first was open and went on
\* receiving
C14_Witness ==
    \E b, c \in Conns :
        /\ b < c
        /\ Waiting(b) /\ Waiting(c)
        /\ openedAt[b] = openedAt[c]
        /\ Len(yielded[b]) = 2
        /\ yielded[b][2].event = "tools_listed"
        /\ yielded[c] = <<Connected, yielded[b][2]>>

\* C15: while a connection waits on an empty queue, the time its wait_for has
\* run is the time since an item was last put on the queue or yielded, and it
\* is never more than the idle interval; a keepalive is yielded only when
\* that time is the whole interval, and it is one keepalive; and once the
\* interval has expired the next item the connection yields is the keepalive.
C15_KeepaliveTiming ==
    /\ [](\A c \in Conns :
             (Waiting(c) /\ queues[c] = <<>>) =>
                 (timer[c] = idle[c] /\ idle[c] <= KeepaliveTimeout))
    /\ [][\A c \in Conns :
             Timeout(c) =>
                 /\ idle[c] = KeepaliveTimeout
                 /\ yielded'[c] = Append(yielded[c], Keepalive)]_vars
    /\ [][\A c \in Conns :
             (/\ Waiting(c) /\ queues[c] = <<>> /\ idle[c] = KeepaliveTimeout
              /\ Waiting(c)' /\ yielded'[c] # yielded[c]) =>
                 yielded'[c] = Append(yielded[c], Keepalive)]_vars

\* an event was yielded and a keepalive followed a whole interval later
C15_Witness ==
    \E c \in Conns :
        /\ Waiting(c)
        /\ Len(yielded[c]) = 3
        /\ yielded[c][2].n > 0
        /\ yielded[c][3] = Keepalive
        /\ timer[c] = 0 /\ idle[c] = 0

\* the attempts to remove c that found it on the list
Removed(c) == {i \in DOMAIN removals[c] : removals[c][i].removed}

\* C16: a queue is on the list at most once and is taken off it at most
\* once; a closed connection's queue is not on the list and was taken off it
\* exactly once; and the generator's finally block removes its own queue and
\* nothing else, leaving the list as it is when broadcast_event has removed
\* the queue before.
C16_RemovedExactlyOnce ==
    /\ [](\A c \in Conns :
             /\ Count(sse_connections, c) <= 1
             /\ Cardinality(Removed(c)) <= 1
             /\ gen[c] = "closed" =>
                    (~Contains(sse_connections, c) /\ Cardinality(Removed(c)) = 1))
    /\ [][\A c \in Conns :
             GeneratorCloses(c) =>
                 /\ sse_connections' = SelectSeq(sse_connections, LAMBDA q : q # c)
                 /\ ~Contains(sse_connections, c) => sse_connections' = sse_connections]_vars

\* broadcast_event removed the queue, then its generator closed, and another
\* connection is still on the list
C16_Witness ==
    \E c \in Conns :
        /\ gen[c] = "closed"
        /\ Len(removals[c]) = 2
        /\ removals[c][1] = [by |-> "broadcast_event", removed |-> TRUE]
        /\ removals[c][2] = [by |-> "event_generator", removed |-> FALSE]
        /\ sse_connections # <<>>

\* what connection c has received or is about to receive
Stream(c) == yielded[c] \o queues[c]

\* C17: a connection's stream holds the event of a broadcast_event call at
\* most once, and only of calls made after the connection was opened.
C17_AtMostOnceNoReplay ==
    \A c \in Conns :
        /\ \A i, j \in DOMAIN Stream(c) :
               (i # j /\ Stream(c)[i].n > 0) => Stream(c)[i].n # Stream(c)[j].n
        /\ \A i \in DOMAIN Stream(c) :
               Stream(c)[i].n > 0 => Stream(c)[i].n > openedAt[c]

\* a client that connected after one broadcast has received the next one
C17_Witness ==
    \E c \in Conns :
        /\ Waiting(c)
        /\ openedAt[c] >= 1
        /\ published >= 2
        /\ \E i \in DOMAIN yielded[c] : yielded[c][i].n > openedAt[c]

\* C18: in a request that broadcasts one event, whichever puts raise: the
\* queues whose put raised are taken off the list and nothing else is, every
\* other queue that was on the list gets the event, and the request is
\* answered as if no put had raised.
C18_PutFailureIsolated ==
    [][\A fails \in SUBSET Range(sse_connections) :
          ListToolsWith(fails) =>
              /\ sse_connections' = SelectSeq(sse_connections, LAMBDA q : q \notin fails)
              /\ \A q \in Range(sse_connections) \ fails :
                     queues'[q] =
                         Append(queues[q], [event |-> "tools_listed", n |-> published + 1])
              /\ \A q \in fails : queues'[q] = queues[q]
              /\ http_response'.status = 200]_vars

\* the put on the first of three queues raised, the other two got the event
C18_Witness ==
    \E a, b, c \in Conns :
        /\ a < b /\ b < c
        /\ Waiting(a) /\ Waiting(b) /\ Waiting(c)
        /\ removals[a] = <<[by |-> "broadcast_event", removed |-> TRUE]>>
        /\ sse_connections = <<b, c>>
        /\ queues[a] = <<>>
        /\ queues[b] # <<>> /\ queues[b] = queues[c]
        /\ http_response.status = 200

\* C19: a request to execute a tool that is not in the tool table is
\* answered with 404, has broadcast exactly one "tool_error" event, and has
\* called no tool function.
C19_UnknownTool404 ==
    (http_response.endpoint = "execute_tool"
        /\ http_response.tool_name \notin ToolFunctions) =>
            /\ http_response.status = 404
            /\ http_response.broadcasts = <<"tool_error">>
            /\ ~http_response.called

\* the message handle_message was called with last
LastMessage == processed_messages[Len(processed_messages)]

\* C20: a sender whose latest /block or /unblock message was /unblock is not
\* in blocked_senders, and a greeting from such a sender is answered.
C20_UnblockRestores ==
    /\ \A sn \in unblockSent : sn \notin blocked_senders
    /\ (/\ processed_messages # <<>>
        /\ LastMessage.sender \in unblockSent
        /\ LastMessage.media_type = ""
        /\ LastMessage.content = "hello") => reply_log # <<>>

\* C21: a call of handle_message with a message whose sender is in
\* blocked_senders sends no reply at all, and still adds one to message_count
\* and appends the message to processed_messages.
C21_BlockedSilentButCounted ==
    [][\A data \in AdvMessages :
          (HandleMessage(data) /\ data.sender \in blocked_senders) =>
              /\ reply_log' = <<>>
              /\ message_count' = message_count + 1
              /\ Len(processed_messages') = Len(processed_messages) + 1
              /\ processed_messages'[Len(processed_messages')].sender = data.sender
              /\ processed_messages'[Len(processed_messages')].content = data.content
              /\ SubSeq(processed_messages', 1, Len(processed_messages)) =
                     processed_messages]_vars

\* a blocked sender's command, greeting and media message were each stored
\* and counted and the last one got no reply
C21_Witness ==
    /\ message_count = 3
    /\ Len(processed_messages) = 3
    /\ processed_messages[1].sender = "111" /\ processed_messages[1].content = "/block"
    /\ processed_messages[1].media_type = ""
    /\ processed_messages[2].sender = "111" /\ processed_messages[2].content = "/stats"
    /\ processed_messages[2].media_type = ""
    /\ processed_messages[3].sender = "111" /\ processed_messages[3].media_type = "image"
    /\ "111" \in blocked_senders
    /\ reply_log = <<>>

\* advanced_reactive_handler.py:139-145, the commands the help text lists
\* that handle_command has a branch for
AdvertisedCommands == {"/help", "/status", "/stats", "/block", "/unblock"}

\* C22: a text message from a sender that is not blocked whose content is one
\* of the advertised commands is handled by handle_command: the replies sent
\* and the blocked senders left are those of handle_command, so "/help" is
\* answered with the list of available commands and "/status" with the bot
\* status.
C22_CommandsReachHandleCommand ==
    [][\A data \in AdvMessages :
          (/\ HandleMessage(data)
           /\ data.sender \notin blocked_senders
           /\ data.media_type = ""
           /\ Normalized(data.content) \in AdvertisedCommands) =>
              /\ reply_log' = HandleCommand(data, blocked_senders).replies
              /\ blocked_senders' = HandleCommand(data, blocked_senders).blocked]_vars

\* C23: a message from the sender of the last message the handler took up
\* (last_sender, last_message_time) gets no auto-reply when it arrives less
\* than 30 seconds after that message, and is not skipped when it arrives 30
\* seconds or more after it, however long the span.
C23_Cooldown ==
    [][\A data \in AutoMessages :
          (/\ AutoReplyHandleMessage(data)
           /\ last_sender = <<data.sender>>
           /\ last_message_time # <<>>) =>
              IF now - last_message_time[1] < Cooldown
              THEN handled'.skipped /\ handled'.response = <<>>
              ELSE ~handled'.skipped]_vars

\* C24: among the messages for which get_response comes to its default branch
\* (no media response, no rule, no question, no greeting), the 3rd, 6th, 9th,
\* ... get a default response and the others get none: when the latest call
\* was such a message, it got a response exactly if it was a multiple of 3 in
\* their count.
C24_EveryThirdUnrecognized ==
    handled.default => (handled.response # <<>> <=> unrecognized % 3 = 0)

\* the notification has no content, or white space only, and no media_type
NeitherContentNorMedia(data) ==
    /\ \A i \in DOMAIN Get(data, "content", <<>>) : IsSpace(Get(data, "content", <<>>)[i])
    /\ Get(data, "media_type", "") = ""

\* C25: whatsapp_send_message is called only in the step in which
\* built_in_auto_reply gets its response; a request takes that step at most
\* once, never for a notification with neither content nor media_type, and
\* the step makes at most one call, with the notification's chat_jid
\* ("unknown" when the notification has none).
C25_AtMostOneReply ==
    /\ [](\A d \in Requests :
             message_data[d] # None =>
                 /\ NeitherContentNorMedia(message_data[d]) =>
                        (pc[d] # "auto_reply" /\ replies[d] = <<>>)
                 /\ Len(replies[d]) <= 1
                 /\ \A i \in DOMAIN replies[d] :
                        replies[d][i] = Get(message_data[d], "chat_jid", "unknown"))
    /\ [][\A d \in Requests :
             /\ (pc[d] # "auto_reply" /\ pc'[d] = "auto_reply") => pc[d] = "idle"
             /\ \A llama \in LlamaResponses, sent \in SendOutcomes :
                    AutoReplyReturns(d, llama, sent) =>
                        /\ ~NeitherContentNorMedia(message_data[d])
                        /\ pc'[d] # "auto_reply"
                        /\ Len(AutoReplySends(message_data[d], llama)) <= 1
                        /\ \A i \in DOMAIN AutoReplySends(message_data[d], llama) :
                               AutoReplySends(message_data[d], llama)[i] =
                                   Get(message_data[d], "chat_jid", "unknown")]_vars

\* a notification of white space only went through its dispatch without a
\* reply, while the reply to a media notification went to its chat_jid
C25_Witness ==
    \E d, e \in Requests :
        /\ pc[d] = "done" /\ message_data[d] = BlankNotification /\ replies[d] = <<>>
        /\ calls[d] # <<>>
        /\ message_data[e] = MediaNotification
        /\ replies[e] = <<"1234567890@s.whatsapp.net">>

\* the temporary file of the request being served
TempFile == upload.temp_file_path[1]

C27_RemovalDuringDispatch ==
    \A d \in Requests :
        (Answered(d) /\ message_data[d] # None /\ changed[d]) =>
            \A h \in Range(message_handlers) :
                /\ Count(Called(d), h) = 1
                /\ \A i \in DOMAIN calls[d] :
                       calls[d][i].handler = h => calls[d][i].event = message_data[d]

====
